---- MODULE Spec2Model ----
(***************************************************************************)
(* Single-player terminal blackjack (src/run.py): the Table state machine, *)
(* the Shoe, evaluate_hand and the main loop.                              *)
(*                                                                         *)
(* Table.print is modelled by the one effect it has on the state of the    *)
(* program: it reads self.split_bet and self.split_cards, which no line of *)
(* src/run.py assigns, and raises AttributeError when either is missing.   *)
(* Chip amounts are Python floats; the amounts used here are the dyadic    *)
(* rationals n / 2^e (exact as doubles) and the one non-finite float that  *)
(* float() accepts and that passes the range tests, nan.                   *)
(***************************************************************************)
EXTENDS Integers, Sequences, FiniteSets, TLC

VARIABLES
    player_stack,        \* Table._player_stack
    bet,                 \* Table._bet
    bet_placed,          \* Table.bet_placed
    player_cards,        \* Table.player_cards
    dealer_cards,        \* Table.dealer_cards
    split_cards,         \* Table.split_cards, or Unset while the attribute does not exist
    split_bet,           \* Table.split_bet, or Unset while the attribute does not exist
    player_input_ended,  \* Table.player_input_ended
    reshuffle,           \* Table.reshuffle
    deck_order,          \* the outcome of random.shuffle in Deck.__init__ (a name in Orders)
    shoe_len,            \* len(Table.shoe.cards): pop() only ever removes the last card
    reshuffle_point,     \* Table.shoe.reshuffle_point
    pc,                  \* position in the main loop / play_hand
    bet_line,            \* the line last typed at the bet prompt
    key,                 \* the line typed at the current action prompt ("" before one is typed)
    error_message,       \* the ValueError text shown by the last except block ("" when the last input raised nothing)
    exception,           \* the exception that ended the program ("" while none has)
    exit_message,        \* the line printed by the main loop on exit ("" while running)
    result               \* SpecEval only: the value returned by evaluate_hand

vars == <<player_stack, bet, bet_placed, player_cards, dealer_cards, split_cards, split_bet,
          player_input_ended, reshuffle, deck_order, shoe_len, reshuffle_point, pc,
          bet_line, key, error_message, exception, exit_message, result>>

table_vars == <<player_stack, bet, bet_placed, player_cards, dealer_cards, split_cards,
                split_bet, player_input_ended, reshuffle, deck_order, shoe_len, reshuffle_point>>

(***************************************************************************)
(* Bounds of the model                                                     *)
(***************************************************************************)
MaxLen == 3          \* longest hand handed to evaluate_hand in SpecEval
NumEvalCards == 26   \* SpecEval draws its cards from 0..NumEvalCards-1

(***************************************************************************)
(* Program constants                                                       *)
(***************************************************************************)
InitialStack == 1000
NumDecks == 6
DeckSize == 52
StackCeiling == 999999
MinReshufflePoint == 30
Unset == <<-1>> \* an attribute no line assigns: no list of cards and no amount

(***************************************************************************)
(* Python floats: the amount n / 2^e is the pair <<n, e>>, kept in lowest  *)
(* terms (e = 0 or n odd); every sum, difference and product of the        *)
(* amounts of a game is again such a pair and is exact as a double.        *)
(***************************************************************************)
Float(i) == <<i, 0>>   \* float(i) for an integer i
NaN == <<0, -1>>       \* float('nan'); every use goes through the f* operators below

RECURSIVE norm(_, _)
norm(n, e) == IF e > 0 /\ n % 2 = 0 THEN norm(n \div 2, e - 1) ELSE <<n, e>>

\* the numerator of a over the denominator 2^e, for e >= a[2]
scaled(a, e) == a[1] * 2^(e - a[2])

common(a, b) == IF a[2] > b[2] THEN a[2] ELSE b[2]

fadd(a, b) ==
    IF a = NaN \/ b = NaN THEN NaN
    ELSE norm(scaled(a, common(a, b)) + scaled(b, common(a, b)), common(a, b))
fsub(a, b) ==
    IF a = NaN \/ b = NaN THEN NaN
    ELSE norm(scaled(a, common(a, b)) - scaled(b, common(a, b)), common(a, b))
\* every comparison with nan is false
flt(a, b) == a # NaN /\ b # NaN /\ scaled(a, common(a, b)) < scaled(b, common(a, b))
fle(a, b) == a # NaN /\ b # NaN /\ scaled(a, common(a, b)) <= scaled(b, common(a, b))
fgt(a, b) == a # NaN /\ b # NaN /\ scaled(a, common(a, b)) > scaled(b, common(a, b))
fge(a, b) == a # NaN /\ b # NaN /\ scaled(a, common(a, b)) >= scaled(b, common(a, b))
\* bet * 2.5 and bet * 2
fmul25(a) == IF a = NaN THEN NaN ELSE norm(5 * a[1], a[2] + 1)
fmul2(a) == IF a = NaN THEN NaN ELSE norm(2 * a[1], a[2])

(***************************************************************************)
(* Deck                                                                    *)
(***************************************************************************)
card_ranks == <<"2", "3", "4", "5", "6", "7", "8", "9", "10", "J", "Q", "K", "A">>

get_rank(x) == card_ranks[(x % 13) + 1]

(***************************************************************************)
(* evaluate_hand                                                           *)
(***************************************************************************)
card_value(card) ==
    IF (card % 13) <= 7 THEN (card % 13) + 2
    ELSE IF (card % 13) >= 8 /\ (card % 13) <= 11 THEN 10
    ELSE IF (card % 13) = 12 THEN 11
    ELSE 0

RECURSIVE sum_values(_)
sum_values(cards) ==
    IF cards = <<>> THEN 0
    ELSE card_value(Head(cards)) + sum_values(Tail(cards))

RECURSIVE count_aces(_)
count_aces(cards) ==
    IF cards = <<>> THEN 0
    ELSE (IF (Head(cards) % 13) = 12 THEN 1 ELSE 0) + count_aces(Tail(cards))

\* the reduction applied once however many aces there are
reduce_aces_once(hand_value, ace_count) ==
    IF ace_count > 0 /\ hand_value > 21 THEN hand_value - 10 ELSE hand_value

\* for _ in range(ace_count): if hand_value > 21: hand_value -= 10
RECURSIVE reduce_aces(_, _)
reduce_aces(hand_value, ace_count) ==
    IF ace_count = 0 THEN hand_value
    ELSE reduce_aces(IF hand_value > 21 THEN hand_value - 10 ELSE hand_value, ace_count - 1)

evaluate_hand(cards) ==
    LET hand_value == reduce_aces(sum_values(cards), count_aces(cards))
    IN  IF Len(cards) = 2 /\ hand_value = 21
        THEN [value |-> 21, blackjack |-> TRUE]
        ELSE [value |-> hand_value, blackjack |-> FALSE]

(***************************************************************************)
(* Shoe: num_decks decks, each list(range(52)) shuffled, concatenated.     *)
(* The shuffles are inputs: Init draws the order of the decks from         *)
(* DeckOrders.  A deck order is written in list order, so its last card    *)
(* is the first one popped.                                                *)
(***************************************************************************)
\* a shuffle in which the first hands of a deck can all be won by standing
StackedOrder ==
    <<0, 13, 1, 2, 4, 3, 17, 15, 16, 29, 26, 28, 14, 27, 40, 41, 30, 39, 42,
      43, 45, 46, 50, 51, 44, 37, 24, 11, 32, 33, 49, 38, 31, 36, 23, 10, 19,
      20, 48, 25, 18, 35, 22, 9, 6, 7, 47, 12, 5, 34, 21, 8>>

\* the shuffle that puts card (a * i + b) % 52 at list position i
StrideOrder(a, b) == [i \in 1..DeckSize |-> (a * i + b) % DeckSize]

\* the names of the shuffles: <<0, 0>> for StackedOrder, <<a, b>> for StrideOrder(a, b)
Orders ==
    {<<0, 0>>} \cup {<<a, b>> : a \in {1, 5, 7, 11, 29}, b \in {0, 3, 9}}

\* a shuffle that leaves the thirty lowest cards of the deck at the bottom, aces last
\* to come: the cards popped from position 30 down are A A A A 2 2 2 2 3 3 3 3 ...
LowOrder ==
    <<6, 45, 5, 18, 31, 44, 4, 17, 30, 43, 3, 16, 29, 42, 2, 15, 28, 41, 1, 14,
      27, 40, 0, 13, 26, 39, 12, 25, 38, 51, 19, 32, 7, 20, 33, 46, 8, 21, 34,
      47, 9, 22, 35, 48, 10, 23, 36, 49, 11, 24, 37, 50>>

DeckOrder(o) ==
    IF o = <<0, 0>> THEN StackedOrder
    ELSE IF o = <<0, 1>> THEN LowOrder
    ELSE StrideOrder(o[1], o[2])

RECURSIVE Shoe(_, _)
Shoe(num_decks, order) ==
    IF num_decks = 0 THEN <<>> ELSE Shoe(num_decks - 1, order) \o order

\* the outcomes of random.shuffle and of random.randint(30, 52 * num_decks), both ends
\* included, that Init draws from: every order with a cut after one hand and after a
\* few hands, and the stacked order with a cut deep enough for nine hands
Shuffles ==
    {[order |-> o, reshuffle_point |-> p] :
        o \in Orders, p \in {300, DeckSize * NumDecks}}
    \cup {[order |-> <<0, 0>>, reshuffle_point |-> 280]}

\* Table.shoe.cards: the first shoe_len cards of Shoe(NumDecks, DeckOrder(deck_order)),
\* whose card i is card ((i - 1) % 52) + 1 of the deck order
card_at(i) == DeckOrder(deck_order)[((i - 1) % DeckSize) + 1]

shoe_cards == [i \in 1..shoe_len |-> card_at(i)]

(***************************************************************************)
(* Property setters                                                        *)
(***************************************************************************)
\* player_stack.setter: the ValueError text, "" when v is stored
player_stack_setter(v) ==
    IF flt(v, Float(0)) \/ fgt(v, Float(StackCeiling))
    THEN "Player stack must be between 0 and 999999"
    ELSE ""

\* the setter with the zero test written < instead of <=
bet_setter_accepts_zero(bet_input) ==
    IF flt(bet_input, Float(0)) THEN "Bet must be greater than 0"
    ELSE IF fgt(bet_input, player_stack)
         THEN IF bet_placed /\ fle(fsub(bet_input, bet), player_stack)
              THEN ""
              ELSE "Bet must not be larger than remaining chips"
         ELSE ""

\* bet.setter on float(v) = bet_input: the ValueError text, "" when bet_input is stored
bet_setter(bet_input) ==
    IF fle(bet_input, Float(0)) THEN "Bet must be greater than 0"
    ELSE IF fgt(bet_input, player_stack)
         THEN IF bet_placed /\ fle(fsub(bet_input, bet), player_stack)
              THEN ""
              ELSE "Bet must not be larger than remaining chips"
         ELSE ""

(***************************************************************************)
(* action_permitted                                                        *)
(***************************************************************************)
\* the call raises AttributeError: line 170 reads self.split_cards, which __init__ never sets
action_permitted_raises(action) ==
    /\ ~evaluate_hand(player_cards).blackjack
    /\ action = "split"
    /\ split_cards = Unset

\* action_permitted without the two-card test on double
action_permitted_any_length(action) ==
    IF evaluate_hand(player_cards).blackjack THEN FALSE
    ELSE IF action = "hit" \/ action = "stand" THEN TRUE
    ELSE IF action = "double" /\ fge(player_stack, bet) THEN TRUE
    ELSE IF /\ action = "split"
            /\ split_cards # Unset
            /\ split_cards = <<>>
            /\ Len(player_cards) = 2
            /\ get_rank(player_cards[1]) = get_rank(player_cards[2])
            /\ fge(player_stack, bet) THEN TRUE
    ELSE FALSE

\* the value returned when the call returns
action_permitted(action) ==
    IF evaluate_hand(player_cards).blackjack THEN FALSE
    ELSE IF action = "hit" \/ action = "stand" THEN TRUE
    ELSE IF action = "double" /\ Len(player_cards) = 2 /\ fge(player_stack, bet) THEN TRUE
    ELSE IF /\ action = "split"
            /\ split_cards # Unset
            /\ split_cards = <<>>
            /\ Len(player_cards) = 2
            /\ get_rank(player_cards[1]) = get_rank(player_cards[2])
            /\ fge(player_stack, bet) THEN TRUE
    ELSE FALSE

\* play_hand lines 218-226: the list of prompts offered
actions_permitted ==
    {a \in {"hit", "stand", "double", "split"} : action_permitted(a)}

(***************************************************************************)
(* reveal_dealer_cards                                                     *)
(***************************************************************************)
\* while evaluate_hand(self.dealer_cards)['value'] < 17: draw; raised when pop() finds no card
RECURSIVE dealer_draws(_, _)
dealer_draws(dealer, len) ==
    IF evaluate_hand(dealer).value < 17
    THEN IF len = 0
         THEN [dealer |-> dealer, shoe_len |-> len, raised |-> TRUE]
         ELSE dealer_draws(Append(dealer, card_at(len)), len - 1)
    ELSE [dealer |-> dealer, shoe_len |-> len, raised |-> FALSE]

\* reveal_dealer_cards without the player's half of the blackjack test
reveal_dealer_cards_player_blackjack_ignored(dealer, player, len) ==
    IF len = 0
    THEN [dealer |-> dealer, shoe_len |-> len, raised |-> TRUE]
    ELSE LET first == Append(dealer, card_at(len))
         IN  IF evaluate_hand(first).blackjack
             THEN [dealer |-> first, shoe_len |-> len - 1, raised |-> FALSE]
             ELSE dealer_draws(first, len - 1)

reveal_dealer_cards(dealer, player, len) ==
    IF len = 0
    THEN [dealer |-> dealer, shoe_len |-> len, raised |-> TRUE]
    ELSE LET first == Append(dealer, card_at(len))
         IN  IF evaluate_hand(first).blackjack \/ evaluate_hand(player).blackjack
             THEN [dealer |-> first, shoe_len |-> len - 1, raised |-> FALSE]
             ELSE dealer_draws(first, len - 1)

(***************************************************************************)
(* process_result                                                          *)
(***************************************************************************)
\* which branch of process_result the two hands select
result_branch(player, dealer) ==
    LET player_hand_value == evaluate_hand(player).value
        dealer_hand_value == evaluate_hand(dealer).value
        player_blackjack == evaluate_hand(player).blackjack
        dealer_blackjack == evaluate_hand(dealer).blackjack
    IN  IF player_blackjack /\ ~dealer_blackjack THEN "blackjack"
        ELSE IF player_hand_value <= 21
                /\ (player_hand_value > dealer_hand_value \/ dealer_hand_value > 21)
             THEN "won"
        ELSE IF player_hand_value <= 21
                /\ ((~dealer_blackjack /\ player_hand_value = dealer_hand_value)
                    \/ (player_blackjack /\ dealer_blackjack))
             THEN "push"
        ELSE "dealer won"

\* the amount process_result adds to player_stack in a branch that adds one
winnings(branch, b) ==
    IF branch = "blackjack" THEN fmul25(b)
    ELSE IF branch = "won" THEN fmul2(b)
    ELSE b

(***************************************************************************)
(* Inputs                                                                  *)
(***************************************************************************)
\* a line typed at the bet prompt: float(v) raises ValueError unless numeric
BetInputs ==
    {[numeric |-> FALSE, value |-> Float(0)]} \cup
    {[numeric |-> TRUE, value |-> x] :
        x \in {NaN, Float(-2), Float(0), Float(1), Float(1000000)} \cup
              (IF player_stack = NaN THEN {}
               ELSE {player_stack, fadd(player_stack, Float(2))})}

\* a line typed at the action prompt
Keys == {"h", "s", "d", "2", "x"}

(***************************************************************************)
(* Table.print                                                             *)
(***************************************************************************)
\* lines 46-63: what Table.print raises, "" when it returns.  Line 46 reads
\* self.split_bet and line 51 self.split_cards; with a split hand on the table, line 52
\* takes len() of an int while the input is open, and line 63 reads
\* self.split_input_ended, which nothing assigns, once it has ended
print_raises(input_ended) ==
    IF split_bet = Unset \/ split_cards = Unset
    THEN "AttributeError"
    ELSE IF split_cards # <<>>
    THEN IF input_ended THEN "AttributeError" ELSE "TypeError"
    ELSE ""

\* an exception no except block catches ends the program
Raise(name) ==
    /\ pc' = "crashed"
    /\ exception' = name

\* self.print(...) and, when it returns, the next position
print_then(next_pc, input_ended) ==
    IF print_raises(input_ended) # ""
    THEN Raise(print_raises(input_ended))
    ELSE pc' = next_pc /\ UNCHANGED exception

(***************************************************************************)
(* Initial state: table = Table(1000, 6), line 403.  __init__ assigns no   *)
(* split_cards and no split_bet.                                           *)
(***************************************************************************)
Init ==
    /\ player_stack = Float(InitialStack)
    /\ \E s \in Shuffles :
        /\ deck_order = s.order
        /\ shoe_len = Len(Shoe(NumDecks, DeckOrder(s.order)))
        /\ reshuffle_point = s.reshuffle_point
    /\ reshuffle = FALSE
    /\ dealer_cards = <<>>
    /\ player_cards = <<>>
    /\ bet = Float(1)
    /\ bet_placed = FALSE
    /\ split_cards = Unset
    /\ split_bet = Unset
    /\ player_input_ended = FALSE
    /\ pc = "play_hand"
    /\ bet_line = [numeric |-> FALSE, value |-> Float(0)]
    /\ key = ""
    /\ error_message = ""
    /\ exception = ""
    /\ exit_message = ""
    /\ result = [value |-> 0, blackjack |-> FALSE]

(***************************************************************************)
(* play_hand                                                               *)
(***************************************************************************)
\* lines 197-202: the assignments, then the print of the bet request
PlayHand ==
    /\ pc = "play_hand"
    /\ player_input_ended' = FALSE
    /\ player_cards' = <<>>
    /\ dealer_cards' = <<>>
    /\ bet_placed' = FALSE
    /\ print_then("bet", FALSE)
    /\ error_message' = ""
    /\ UNCHANGED <<player_stack, bet, split_cards, split_bet, reshuffle, deck_order, shoe_len,
                   reshuffle_point, bet_line, key, exit_message, result>>

\* lines 203-209: one pass of the bet loop; a refused line is reported with a print
PlaceBetFrom(lines) ==
    /\ pc = "bet"
    /\ \E v \in lines :
        /\ bet_line' = v
        /\ IF ~v.numeric
           THEN /\ error_message' = "Bet must be a number"
                /\ print_then("bet", player_input_ended)
                /\ UNCHANGED <<bet, player_stack, bet_placed>>
           ELSE IF bet_setter(v.value) # ""
           THEN /\ error_message' = bet_setter(v.value)
                /\ print_then("bet", player_input_ended)
                /\ UNCHANGED <<bet, player_stack, bet_placed>>
           ELSE IF player_stack_setter(fsub(player_stack, v.value)) # ""
           THEN /\ error_message' = player_stack_setter(fsub(player_stack, v.value))
                /\ bet' = v.value
                /\ print_then("bet", player_input_ended)
                /\ UNCHANGED <<player_stack, bet_placed>>
           ELSE /\ error_message' = ""
                /\ bet' = v.value
                /\ player_stack' = fsub(player_stack, v.value)
                /\ bet_placed' = TRUE
                /\ pc' = "deal"
                /\ UNCHANGED exception
    /\ UNCHANGED <<player_cards, dealer_cards, split_cards, split_bet, player_input_ended,
                   reshuffle, deck_order, shoe_len, reshuffle_point, key, exit_message, result>>

PlaceBet == PlaceBetFrom(BetInputs)

\* lines 211-214: two cards to the player, one to the dealer
Deal ==
    /\ pc = "deal"
    /\ IF shoe_len >= 3
       THEN /\ player_cards' = <<card_at(shoe_len), card_at(shoe_len - 1)>>
            /\ dealer_cards' = <<card_at(shoe_len - 2)>>
            /\ shoe_len' = shoe_len - 3
            /\ pc' = "prompt"
            /\ UNCHANGED exception
       ELSE \* pop from empty list: the cards popped before it are gone from the shoe
            /\ shoe_len' = 0
            /\ player_cards' = IF shoe_len = 2
                               THEN <<card_at(2), card_at(1)>> ELSE <<>>
            /\ dealer_cards' = <<>>
            /\ Raise("IndexError")
    /\ UNCHANGED <<player_stack, bet, bet_placed, split_cards, split_bet, player_input_ended,
                   reshuffle, deck_order, reshuffle_point, bet_line, key, error_message,
                   exit_message, result>>

\* the test without the bust half
blackjack_only(player_hand) == player_hand.blackjack

\* line 247: the test that ends the input after an action, or when none is permitted
bust_or_blackjack(player_hand) == player_hand.value > 21 \/ player_hand.blackjack

\* lines 216-234: the loop test has passed; build and show the prompt for the next key
Prompt ==
    /\ pc = "prompt"
    /\ IF action_permitted_raises("split")
       THEN /\ Raise("AttributeError")
            /\ UNCHANGED player_input_ended
       ELSE IF actions_permitted # {}
       THEN \* line 234: the request is printed before the key is read
            /\ print_then("input", player_input_ended)
            /\ UNCHANGED player_input_ended
       ELSE \* nothing to ask: lines 246-248, then the loop test
            /\ player_input_ended' = bust_or_blackjack(evaluate_hand(player_cards))
            /\ pc' = IF player_input_ended' THEN "reveal" ELSE "prompt"
            /\ UNCHANGED exception
    /\ key' = ""
    /\ error_message' = ""
    /\ UNCHANGED <<player_stack, bet, bet_placed, player_cards, dealer_cards, split_cards,
                   split_bet, reshuffle, deck_order, shoe_len, reshuffle_point, bet_line,
                   exit_message, result>>

(***************************************************************************)
(* process_action: the Table after the call, and what the call raised      *)
(***************************************************************************)
\* the guard without the permission test
double_requested_unchecked(k) == k = "d"

\* line 186: the guard of the double branch
double_requested(k) == k = "d" /\ action_permitted("double")

\* the increment taken after the bet was raised: the full new bet
incremental_bet_full == fadd(bet, bet)

\* line 188: incremental_bet = self.bet
incremental_bet == bet

process_action(k) ==
    LET same == [player_cards |-> player_cards, shoe_len |-> shoe_len, bet |-> bet,
                 player_stack |-> player_stack, player_input_ended |-> player_input_ended,
                 raised |-> "", message |-> ""]
    IN  IF k = "h"
        THEN IF shoe_len = 0
             THEN [same EXCEPT !.raised = "IndexError"]
             ELSE [same EXCEPT !.player_cards = Append(player_cards, card_at(shoe_len)),
                               !.shoe_len = shoe_len - 1]
        ELSE IF k = "s"
        THEN [same EXCEPT !.player_input_ended = TRUE]
        ELSE IF double_requested(k)
        THEN LET new_bet == fadd(bet, incremental_bet)
                 new_stack == fsub(player_stack, incremental_bet)
             IN  IF bet_setter(new_bet) # ""
                 THEN [same EXCEPT !.raised = "ValueError", !.message = bet_setter(new_bet)]
                 ELSE IF player_stack_setter(new_stack) # ""
                 THEN [same EXCEPT !.bet = new_bet, !.raised = "ValueError",
                                   !.message = player_stack_setter(new_stack)]
                 ELSE IF shoe_len = 0
                 THEN [same EXCEPT !.bet = new_bet, !.player_stack = new_stack,
                                   !.raised = "IndexError"]
                 ELSE [same EXCEPT !.bet = new_bet, !.player_stack = new_stack,
                                   !.player_cards = Append(player_cards, card_at(shoe_len)),
                                   !.shoe_len = shoe_len - 1,
                                   !.player_input_ended = TRUE]
        ELSE same

\* lines 237-248: read a key, process it, end the input when bust or blackjack
ProcessActionFrom(keys) ==
    /\ pc = "input"
    /\ \E k \in keys :
        LET after == process_action(k)
            player_hand == evaluate_hand(after.player_cards)
        IN  /\ key' = k
            /\ player_cards' = after.player_cards
            /\ shoe_len' = after.shoe_len
            /\ bet' = after.bet
            /\ player_stack' = after.player_stack
            /\ IF after.raised = "ValueError"
               THEN \* caught at line 242: the message is printed, then input() again
                    /\ error_message' = after.message
                    /\ print_then("input", player_input_ended)
                    /\ UNCHANGED player_input_ended
               ELSE IF after.raised # ""
               THEN /\ Raise(after.raised)
                    /\ UNCHANGED <<player_input_ended, error_message>>
               ELSE /\ error_message' = ""
                    /\ player_input_ended' =
                         (after.player_input_ended \/ bust_or_blackjack(player_hand))
                    /\ pc' = IF player_input_ended' THEN "reveal" ELSE "prompt"
                    /\ UNCHANGED exception
    /\ UNCHANGED <<bet_placed, dealer_cards, split_cards, split_bet, reshuffle, deck_order,
                   reshuffle_point, bet_line, exit_message, result>>

ProcessAction == ProcessActionFrom(Keys)

\* lines 250-251
RevealDealerCards ==
    /\ pc = "reveal"
    /\ IF evaluate_hand(player_cards).value > 21
       THEN /\ pc' = "result"
            /\ UNCHANGED <<dealer_cards, shoe_len, exception>>
       ELSE LET after == reveal_dealer_cards(dealer_cards, player_cards, shoe_len)
            IN  /\ dealer_cards' = after.dealer
                /\ shoe_len' = after.shoe_len
                /\ IF after.raised
                   THEN Raise("IndexError")
                   ELSE pc' = "result" /\ UNCHANGED exception
    /\ UNCHANGED <<player_stack, bet, bet_placed, player_cards, split_cards, split_bet,
                   player_input_ended, reshuffle, deck_order, reshuffle_point, bet_line, key,
                   error_message, exit_message, result>>

\* line 252: process_result credits the stack, prints the result and waits for Enter
ProcessResult ==
    /\ pc = "result"
    /\ LET branch == result_branch(player_cards, dealer_cards)
           v == fadd(player_stack, winnings(branch, bet))
       IN  IF branch # "dealer won" /\ player_stack_setter(v) # ""
           THEN \* the setter's ValueError leaves process_result and play_hand
                /\ Raise("ValueError")
                /\ UNCHANGED player_stack
           ELSE /\ player_stack' = IF branch = "dealer won" THEN player_stack ELSE v
                /\ print_then("shoe_check", player_input_ended)
    /\ UNCHANGED <<bet, bet_placed, player_cards, dealer_cards, split_cards, split_bet,
                   player_input_ended, reshuffle, deck_order, shoe_len, reshuffle_point,
                   bet_line, key, error_message, exit_message, result>>

\* the reshuffle test written <= instead of <
ShoeCheck_at_or_below ==
    /\ pc = "shoe_check"
    /\ reshuffle' = IF shoe_len <= reshuffle_point THEN TRUE ELSE reshuffle
    /\ pc' = "hand_done"
    /\ UNCHANGED <<player_stack, bet, bet_placed, player_cards, dealer_cards, split_cards,
                   split_bet, player_input_ended, deck_order, shoe_len, reshuffle_point,
                   bet_line, key, error_message, exception, exit_message, result>>

\* lines 253-255, after Enter: the reshuffle test that ends play_hand
ShoeCheck ==
    /\ pc = "shoe_check"
    /\ reshuffle' = IF shoe_len < reshuffle_point THEN TRUE ELSE reshuffle
    /\ pc' = "hand_done"
    /\ UNCHANGED <<player_stack, bet, bet_placed, player_cards, dealer_cards, split_cards,
                   split_bet, player_input_ended, deck_order, shoe_len, reshuffle_point,
                   bet_line, key, error_message, exception, exit_message, result>>

(***************************************************************************)
(* Main loop, lines 404-414                                                *)
(***************************************************************************)
\* lines 406, 409, 412: the exit message is printed, then the loop is left
Exit(message) ==
    IF print_raises(player_input_ended) # ""
    THEN Raise(print_raises(player_input_ended)) /\ UNCHANGED exit_message
    ELSE pc' = "exited" /\ exit_message' = message /\ UNCHANGED exception

\* the loop without the reshuffle exit
MainLoop_without_reshuffle_exit ==
    /\ pc = "hand_done"
    /\ IF fle(player_stack, Float(0))
       THEN Exit("Exiting: out of chips")
       ELSE IF fgt(player_stack, Float(StackCeiling))
       THEN Exit("Exiting: stack >= 1,000,000 - you win!")
       ELSE pc' = "play_hand" /\ UNCHANGED <<exit_message, exception>>
    /\ UNCHANGED <<table_vars, bet_line, key, error_message, result>>

\* the loop with the first test as a stack below 0
MainLoop_chips_below_zero ==
    /\ pc = "hand_done"
    /\ IF flt(player_stack, Float(0))
       THEN Exit("Exiting: out of chips")
       ELSE IF fgt(player_stack, Float(StackCeiling))
       THEN Exit("Exiting: stack >= 1,000,000 - you win!")
       ELSE IF reshuffle
       THEN Exit("Exiting: shoe hit resuffle point")
       ELSE pc' = "play_hand" /\ UNCHANGED <<exit_message, exception>>
    /\ UNCHANGED <<table_vars, bet_line, key, error_message, result>>

MainLoop ==
    /\ pc = "hand_done"
    /\ IF fle(player_stack, Float(0))
       THEN Exit("Exiting: out of chips")
       ELSE IF fgt(player_stack, Float(StackCeiling))
       THEN Exit("Exiting: stack >= 1,000,000 - you win!")
       ELSE IF reshuffle
       THEN Exit("Exiting: shoe hit resuffle point")
       ELSE pc' = "play_hand" /\ UNCHANGED <<exit_message, exception>>
    /\ UNCHANGED <<table_vars, bet_line, key, error_message, result>>

Next ==
    \/ PlayHand
    \/ PlaceBet
    \/ Deal
    \/ Prompt
    \/ ProcessAction
    \/ RevealDealerCards
    \/ ProcessResult
    \/ ShoeCheck
    \/ MainLoop

\* the program: python3 run.py
Spec == Init /\ [][Next]_vars

(***************************************************************************)
(* The Table of line 403 with the two attributes print reads and __init__  *)
(* does not assign either left missing or supplied by the caller, each on  *)
(* its own: split_cards = [] and split_bet = 0.  The run with both missing *)
(* is the run of the program; play goes past the first print only on the   *)
(* Table that was given both.  The behaviours of the program are among     *)
(* those of SpecTable, so what holds of every behaviour of SpecTable holds *)
(* of the program; a behaviour that starts from a supplied attribute is    *)
(* none of the program, and shows nothing against it.                      *)
(***************************************************************************)
InitTable ==
    /\ player_stack = Float(InitialStack)
    /\ \E s \in Shuffles :
        /\ deck_order = s.order
        /\ shoe_len = Len(Shoe(NumDecks, DeckOrder(s.order)))
        /\ reshuffle_point = s.reshuffle_point
    /\ reshuffle = FALSE
    /\ dealer_cards = <<>>
    /\ player_cards = <<>>
    /\ bet = Float(1)
    /\ bet_placed = FALSE
    /\ split_cards \in {Unset, <<>>}
    /\ split_bet \in {Unset, Float(0)}
    /\ player_input_ended = FALSE
    /\ pc = "play_hand"
    /\ bet_line = [numeric |-> FALSE, value |-> Float(0)]
    /\ key = ""
    /\ error_message = ""
    /\ exception = ""
    /\ exit_message = ""
    /\ result = [value |-> 0, blackjack |-> FALSE]

SpecTable == InitTable /\ [][Next]_vars

(***************************************************************************)
(* evaluate_hand on its own: every hand of at most MaxLen cards            *)
(***************************************************************************)
EvalCards == 0..(NumEvalCards - 1)

InitEval ==
    /\ player_cards \in UNION {[1..n -> EvalCards] : n \in 0..MaxLen}
    /\ pc = "evaluate"
    /\ result = [value |-> 0, blackjack |-> FALSE]
    /\ player_stack = Float(InitialStack)
    /\ deck_order = <<0, 0>>
    /\ shoe_len = 0
    /\ reshuffle_point = MinReshufflePoint
    /\ reshuffle = FALSE
    /\ dealer_cards = <<>>
    /\ bet = Float(1)
    /\ bet_placed = FALSE
    /\ split_cards = Unset
    /\ split_bet = Unset
    /\ player_input_ended = FALSE
    /\ bet_line = [numeric |-> FALSE, value |-> Float(0)]
    /\ key = ""
    /\ error_message = ""
    /\ exception = ""
    /\ exit_message = ""

Evaluate ==
    /\ pc = "evaluate"
    /\ result' = evaluate_hand(player_cards)
    /\ pc' = "evaluated"
    /\ UNCHANGED <<table_vars, bet_line, key, error_message, exception, exit_message>>

NextEval == Evaluate

SpecEval == InitEval /\ [][NextEval]_vars

(***************************************************************************)
(* The program with a player who goes on typing: a line typed at the bet   *)
(* prompt is eventually one the setters accept, a key typed at the action  *)
(* prompt is eventually h or s, and every other step is the interpreter's  *)
(***************************************************************************)
BetAccepted == PlaceBet /\ bet_placed'

RecognisedKey == ProcessActionFrom({"h", "s"})

SpecTableFair ==
    /\ InitTable
    /\ [][Next]_vars
    /\ WF_vars(Next)
    /\ SF_vars(BetAccepted)
    /\ SF_vars(RecognisedKey)

(***************************************************************************)
(* Whole games played down to the lowest reshuffle_point, from the Tables  *)
(* of InitTable: the smallest and the largest reshuffle_point, one small   *)
(* bet typed at every bet prompt and the keys that draw, stand or double   *)
(***************************************************************************)
LongShuffles ==
    {[order |-> o, reshuffle_point |-> p] :
        o \in {<<0, 1>>}, p \in {MinReshufflePoint, DeckSize * NumDecks}}

LongBetInputs == {[numeric |-> TRUE, value |-> Float(1)]}

LongKeys == {"h", "s", "d"}

InitLong ==
    /\ player_stack = Float(InitialStack)
    /\ \E s \in LongShuffles :
        /\ deck_order = s.order
        /\ shoe_len = Len(Shoe(NumDecks, DeckOrder(s.order)))
        /\ reshuffle_point = s.reshuffle_point
    /\ reshuffle = FALSE
    /\ dealer_cards = <<>>
    /\ player_cards = <<>>
    /\ bet = Float(1)
    /\ bet_placed = FALSE
    /\ split_cards \in {Unset, <<>>}
    /\ split_bet \in {Unset, Float(0)}
    /\ player_input_ended = FALSE
    /\ pc = "play_hand"
    /\ bet_line = [numeric |-> FALSE, value |-> Float(0)]
    /\ key = ""
    /\ error_message = ""
    /\ exception = ""
    /\ exit_message = ""
    /\ result = [value |-> 0, blackjack |-> FALSE]

NextLong ==
    \/ PlayHand
    \/ PlaceBetFrom(LongBetInputs)
    \/ Deal
    \/ Prompt
    \/ ProcessActionFrom(LongKeys)
    \/ RevealDealerCards
    \/ ProcessResult
    \/ ShoeCheck
    \/ MainLoop

SpecLong == InitLong /\ [][NextLong]_vars

(***************************************************************************)
(* action_permitted on its own: the call on a Table as __init__ and        *)
(* play_hand leave it (no split_cards, no split_bet), after a bet from the *)
(* initial stack, for every hand of two or three of ActionCards and every  *)
(* action name                                                             *)
(***************************************************************************)
\* the ranks 10 (twice), J, A, 2 and a further A
ActionCards == {8, 21, 9, 12, 0, 25}

ActionNames == {"hit", "stand", "double", "split"}

\* the bets placed from the initial stack: the smallest, the two either side of half
\* the stack, and all of it
ActionBets == {1, InitialStack \div 2, (InitialStack \div 2) + 1, InitialStack}

InitAction ==
    /\ pc = "action_permitted"
    /\ player_cards \in UNION {[1..n -> ActionCards] : n \in 2..MaxLen}
    /\ \E b \in ActionBets :
        /\ bet = Float(b)
        /\ player_stack = Float(InitialStack - b)
    /\ split_cards = Unset
    /\ split_bet = Unset
    /\ bet_placed = TRUE
    /\ dealer_cards = <<>>
    /\ player_input_ended = FALSE
    /\ deck_order = <<0, 0>>
    /\ shoe_len = 0
    /\ reshuffle_point = MinReshufflePoint
    /\ reshuffle = FALSE
    /\ bet_line = [numeric |-> FALSE, value |-> Float(0)]
    /\ key = ""
    /\ error_message = ""
    /\ exception = ""
    /\ exit_message = ""
    /\ result = [value |-> 0, blackjack |-> FALSE]

\* lines 151-176: one call, its value kept in result, the action name in key
ActionPermitted ==
    /\ pc = "action_permitted"
    /\ \E a \in ActionNames :
        /\ key' = a
        /\ IF action_permitted_raises(a)
           THEN Raise("AttributeError") /\ UNCHANGED result
           ELSE /\ result' = [returned |-> action_permitted(a)]
                /\ pc' = "action_permitted_returned"
                /\ UNCHANGED exception
    /\ UNCHANGED <<table_vars, bet_line, error_message, exit_message>>

NextAction == ActionPermitted

SpecAction == InitAction /\ [][NextAction]_vars

(***************************************************************************)
(* The Table of line 403 driven through its own methods and properties,    *)
(* one call per step, by a caller that goes on after an exception: no      *)
(* attribute is written from outside, so every state is one the code of    *)
(* the Table has produced from Table(1000, 6).  The calls of a hand are    *)
(* made in the order play_hand makes them; the player's cards are drawn by *)
(* process_action('h').  exception and error_message hold what the last    *)
(* call raised ("" when it returned).                                      *)
(***************************************************************************)
\* the shuffles of the calls: two deck orders, reshuffle_point five decks and six
CallShuffles ==
    {[order |-> o, reshuffle_point |-> p] :
        o \in {<<0, 0>>, <<11, 0>>}, p \in {DeckSize * (NumDecks - 1), DeckSize * NumDecks}}

\* the values given to the bet setter: those of BetInputs, the one-chip bet only
\* while the stack is the initial one, so that every later finite bet is the whole stack
CallBetInputs ==
    {v \in BetInputs : v.value = Float(1) => player_stack = Float(InitialStack)}

\* table = Table(1000, 6), as Init, on the shuffles of the calls
InitCalls ==
    /\ player_stack = Float(InitialStack)
    /\ \E s \in CallShuffles :
        /\ deck_order = s.order
        /\ shoe_len = Len(Shoe(NumDecks, DeckOrder(s.order)))
        /\ reshuffle_point = s.reshuffle_point
    /\ reshuffle = FALSE
    /\ dealer_cards = <<>>
    /\ player_cards = <<>>
    /\ bet = Float(1)
    /\ bet_placed = FALSE
    /\ split_cards = Unset
    /\ split_bet = Unset
    /\ player_input_ended = FALSE
    /\ pc = "play_hand"
    /\ bet_line = [numeric |-> FALSE, value |-> Float(0)]
    /\ key = ""
    /\ error_message = ""
    /\ exception = ""
    /\ exit_message = ""
    /\ result = [value |-> 0, blackjack |-> FALSE]

\* table.play_hand(): lines 197-200, then the print of line 202 raises
CallPlayHand ==
    /\ pc = "play_hand"
    /\ print_raises(FALSE) # ""
    /\ player_input_ended' = FALSE
    /\ player_cards' = <<>>
    /\ dealer_cards' = <<>>
    /\ bet_placed' = FALSE
    /\ exception' = print_raises(FALSE)
    /\ error_message' = ""
    /\ pc' = "call_bet"
    /\ UNCHANGED <<player_stack, bet, split_cards, split_bet, reshuffle, deck_order, shoe_len,
                   reshuffle_point, bet_line, key, exit_message, result>>

\* table.bet = v: the bet setter, lines 272-286
CallBetSetter ==
    /\ pc = "call_bet"
    /\ \E v \in CallBetInputs :
        LET message == IF ~v.numeric THEN "Bet must be a number" ELSE bet_setter(v.value)
        IN  /\ bet_line' = v
            /\ error_message' = message
            /\ exception' = IF message = "" THEN "" ELSE "ValueError"
            /\ bet' = IF message = "" THEN v.value ELSE bet
            /\ pc' = IF message = "" THEN "call_deduct" ELSE "call_bet"
    /\ UNCHANGED <<player_stack, bet_placed, player_cards, dealer_cards, split_cards, split_bet,
                   player_input_ended, reshuffle, deck_order, shoe_len, reshuffle_point, key,
                   exit_message, result>>

\* table.player_stack -= table.bet: the player_stack setter, lines 261-266
CallStackDeduct ==
    /\ pc = "call_deduct"
    /\ LET message == player_stack_setter(fsub(player_stack, bet))
       IN  /\ error_message' = message
           /\ exception' = IF message = "" THEN "" ELSE "ValueError"
           /\ player_stack' = IF message = "" THEN fsub(player_stack, bet) ELSE player_stack
           /\ pc' = IF message = "" THEN "call_action" ELSE "call_bet"
    /\ UNCHANGED <<bet, bet_placed, player_cards, dealer_cards, split_cards, split_bet,
                   player_input_ended, reshuffle, deck_order, shoe_len, reshuffle_point,
                   bet_line, key, exit_message, result>>

\* table.process_action(k), lines 178-194; the first two calls are the hits that
\* draw the player's two cards, and the caller asks for no further card once the
\* hand is bust, a blackjack or ended by the call
CallProcessAction ==
    /\ pc = "call_action"
    /\ \E k \in (IF Len(player_cards) < 2 THEN {"h"} ELSE Keys) :
        LET after == process_action(k)
            player_hand == evaluate_hand(after.player_cards)
        IN  /\ key' = k
            /\ player_cards' = after.player_cards
            /\ shoe_len' = after.shoe_len
            /\ bet' = after.bet
            /\ player_stack' = after.player_stack
            /\ player_input_ended' = after.player_input_ended
            /\ exception' = after.raised
            /\ error_message' = after.message
            /\ pc' = IF after.raised # "" THEN "call_action"
                     ELSE IF player_hand.value > 21 THEN "call_result"
                     ELSE IF after.player_input_ended \/ player_hand.blackjack
                          THEN "call_reveal"
                     ELSE "call_action"
    /\ UNCHANGED <<bet_placed, dealer_cards, split_cards, split_bet, reshuffle, deck_order,
                   reshuffle_point, bet_line, exit_message, result>>

\* table.reveal_dealer_cards(), lines 141-149
CallRevealDealerCards ==
    /\ pc = "call_reveal"
    /\ LET after == reveal_dealer_cards(dealer_cards, player_cards, shoe_len)
       IN  /\ dealer_cards' = after.dealer
           /\ shoe_len' = after.shoe_len
           /\ exception' = IF after.raised THEN "IndexError" ELSE ""
           /\ pc' = IF after.raised THEN "call_done" ELSE "call_result"
    /\ error_message' = ""
    /\ UNCHANGED <<player_stack, bet, bet_placed, player_cards, split_cards, split_bet,
                   player_input_ended, reshuffle, deck_order, reshuffle_point, bet_line, key,
                   exit_message, result>>

\* table.process_result(), lines 94-139: the credit, then the print that raises; the
\* caller starts another hand while the shoe holds reshuffle_point cards and chips are left
CallProcessResult ==
    /\ pc = "call_result"
    /\ print_raises(player_input_ended) # ""
    /\ LET branch == result_branch(player_cards, dealer_cards)
           v == fadd(player_stack, winnings(branch, bet))
       IN  IF branch # "dealer won" /\ player_stack_setter(v) # ""
           THEN /\ exception' = "ValueError"
                /\ error_message' = player_stack_setter(v)
                /\ pc' = "call_done"
                /\ UNCHANGED player_stack
           ELSE /\ player_stack' = IF branch = "dealer won" THEN player_stack ELSE v
                /\ exception' = print_raises(player_input_ended)
                /\ error_message' = ""
                /\ pc' = IF shoe_len < reshuffle_point \/ fle(player_stack', Float(0))
                         THEN "call_done" ELSE "play_hand"
    /\ UNCHANGED <<bet, bet_placed, player_cards, dealer_cards, split_cards, split_bet,
                   player_input_ended, reshuffle, deck_order, shoe_len, reshuffle_point,
                   bet_line, key, exit_message, result>>

NextCalls ==
    \/ CallPlayHand
    \/ CallBetSetter
    \/ CallStackDeduct
    \/ CallProcessAction
    \/ CallRevealDealerCards
    \/ CallProcessResult

SpecCalls == InitCalls /\ [][NextCalls]_vars

(***************************************************************************)
(* Shoe.__init__ on its own: Shoe(num_decks) for every num_decks, accepted *)
(* by the num_decks setter or not                                          *)
(***************************************************************************)
\* the draw with the upper end one past the card count
randint_past_end(a, b) == a..(b + 1)

\* random.randint(a, b): any integer N with a <= N <= b
randint(a, b) == a..b

InitShoe ==
    /\ pc = "shoe_init"
    /\ deck_order = <<0, 0>>
    /\ shoe_len = 0
    /\ reshuffle_point = 0
    /\ player_stack = Float(InitialStack)
    /\ reshuffle = FALSE
    /\ dealer_cards = <<>>
    /\ player_cards = <<>>
    /\ bet = Float(1)
    /\ bet_placed = FALSE
    /\ split_cards = Unset
    /\ split_bet = Unset
    /\ player_input_ended = FALSE
    /\ bet_line = [numeric |-> FALSE, value |-> Float(0)]
    /\ key = ""
    /\ error_message = ""
    /\ exception = ""
    /\ exit_message = ""
    /\ result = [value |-> 0, blackjack |-> FALSE]

\* lines 350-356 with the num_decks setter of lines 362-367
ShoeInit ==
    /\ pc = "shoe_init"
    /\ \E num_decks \in 0..(NumDecks + 1) :
        IF ~(num_decks > 0 /\ num_decks < 7)
        THEN /\ Raise("ValueError")
             /\ UNCHANGED <<deck_order, shoe_len, reshuffle_point>>
        ELSE /\ \E o \in Orders :
                  /\ deck_order' = o
                  /\ shoe_len' = Len(Shoe(num_decks, DeckOrder(o)))
             /\ reshuffle_point' \in randint(MinReshufflePoint, DeckSize * num_decks)
             /\ pc' = "shoe_built"
             /\ UNCHANGED exception
    /\ UNCHANGED <<player_stack, bet, bet_placed, player_cards, dealer_cards, split_cards,
                   split_bet, player_input_ended, reshuffle, bet_line, key, error_message,
                   exit_message, result>>

NextShoe == ShoeInit

SpecShoe == InitShoe /\ [][NextShoe]_vars

(***************************************************************************)
(* Properties                                                              *)
(***************************************************************************)

\* the payout named for a bet b and two hands: 2.5 b, 2 b, b or 0
C1_Payout(b, player, dealer) ==
    LET p == evaluate_hand(player)
        d == evaluate_hand(dealer)
    IN  IF p.blackjack /\ ~d.blackjack THEN fmul25(b)
        ELSE IF p.value <= 21 /\ (p.value > d.value \/ d.value > 21) THEN fmul2(b)
        ELSE IF (p.value = d.value /\ ~d.blackjack) \/ (p.blackjack /\ d.blackjack) THEN b
        ELSE Float(0)

\* C1: every call of process_result credits player_stack with exactly the payout of
\* the two hands (2.5 x bet, 2 x bet, 1 x bet or 0) and changes nothing else of the Table.
C1_SettleCreditsPayout ==
    [][pc = "call_result" =>
         /\ player_stack' = fadd(player_stack, C1_Payout(bet, player_cards, dealer_cards))
         /\ UNCHANGED <<bet, bet_placed, player_cards, dealer_cards, split_cards, split_bet,
                        player_input_ended, reshuffle, deck_order, shoe_len, reshuffle_point>>]_vars

\* the hard total of a hand: every ace counted as 1
RECURSIVE C2_Hard(_)
C2_Hard(cards) ==
    IF cards = <<>> THEN 0
    ELSE (IF (Head(cards) % 13) = 12 THEN 1
          ELSE IF (Head(cards) % 13) >= 8 THEN 10
          ELSE (Head(cards) % 13) + 2) + C2_Hard(Tail(cards))

C2_Aces(cards) == Cardinality({i \in 1..Len(cards) : (cards[i] % 13) = 12})

\* the totals obtainable by counting k of the aces as 11
C2_Totals(cards) == {C2_Hard(cards) + 10 * k : k \in 0..C2_Aces(cards)}

C2_Best(cards) ==
    IF \E t \in C2_Totals(cards) : t <= 21
    THEN CHOOSE t \in C2_Totals(cards) :
            t <= 21 /\ \A u \in C2_Totals(cards) : u <= 21 => u <= t
    ELSE C2_Hard(cards)

\* C2: evaluate_hand returns the highest total not above 21 obtainable by counting each
\* ace as 11 or 1 (the all-aces-as-1 total when none is), and blackjack exactly for a
\* two-card hand of value 21.
C2_EvaluateHandBestTotal ==
    pc = "evaluated" =>
        /\ result.value = C2_Best(player_cards)
        /\ result.blackjack = (Len(player_cards) = 2 /\ C2_Best(player_cards) = 21)

\* a three-card 21 holding two aces has been evaluated: 21, not a blackjack
C2_Witness ==
    /\ pc = "evaluated"
    /\ Len(player_cards) = 3
    /\ C2_Aces(player_cards) = 2
    /\ result = [value |-> 21, blackjack |-> FALSE]

\* C3: a permitted double turns bet b and stack s into bet 2b and stack s - b, moves
\* exactly one card from the shoe to the player's hand and ends the player's input.
C3_DoubleAccounting ==
    [][(pc = "input" /\ key' = "d" /\ action_permitted("double")) =>
         /\ bet' = fadd(bet, bet)
         /\ player_stack' = fsub(player_stack, bet)
         /\ player_cards' = Append(player_cards, card_at(shoe_len))
         /\ shoe_len' = shoe_len - 1
         /\ player_input_ended'
         /\ pc' = "reveal"
         /\ UNCHANGED dealer_cards]_vars

\* the first hand was bet at 1 chip and doubled: bet 2, stack 998, three cards, input ended
C3_Witness ==
    /\ key = "d"
    /\ pc = "reveal"
    /\ bet = Float(2)
    /\ player_stack = Float(InitialStack - 2)
    /\ Len(player_cards) = 3
    /\ player_input_ended

\* the keys of the actions action_permitted allows in the current state
PermittedKeys ==
    {k \in Keys :
        \/ k = "h" /\ action_permitted("hit")
        \/ k = "s" /\ action_permitted("stand")
        \/ k = "d" /\ action_permitted("double")
        \/ k = "2" /\ action_permitted("split")}

\* C4: a key outside the permitted set, typed at the action prompt, leaves the stack,
\* the bet, the cards, the shoe and the input-ended flag as they were.
C4_RejectedKeyChangesNothing ==
    [][(pc = "input" /\ key' \in Keys \ PermittedKeys) => UNCHANGED table_vars]_vars

\* double typed after a hit: the hand still has its three cards and asks again
C4_Witness ==
    /\ key = "d"
    /\ pc = "prompt"
    /\ Len(player_cards) = 3
    /\ ~player_input_ended

\* C5: a call of process_action with a key outside the permitted set is answered with
\* an error that carries a reason, so that the caller can ask again; it never returns as
\* a completed action does.
C5_RejectedKeyReportsError ==
    [][(pc = "call_action" /\ key' \in Keys \ PermittedKeys) =>
         (exception' # "" /\ error_message' # "")]_vars

\* C6: with no bet placed, a bet that is not positive or exceeds the stack raises the
\* invalid-bet error and leaves the Table as it was, however often it is repeated.
C6_InvalidBetChangesNothing ==
    [][(/\ pc = "bet"
        /\ ~bet_placed
        /\ bet_line'.numeric
        /\ (fle(bet_line'.value, Float(0)) \/ fgt(bet_line'.value, player_stack))) =>
         /\ error_message' \in {"Bet must be greater than 0",
                                "Bet must not be larger than remaining chips"}
         /\ pc' = "bet"
         /\ UNCHANGED table_vars]_vars

\* a bet above the stack has been refused at the bet prompt
C6_Witness ==
    /\ pc = "bet"
    /\ ~bet_placed
    /\ bet_line.numeric
    /\ fgt(bet_line.value, player_stack)
    /\ error_message = "Bet must not be larger than remaining chips"

\* C7: player_stack is always a number in 0..999999.
C7_StackInRange ==
    fge(player_stack, Float(0)) /\ fle(player_stack, Float(StackCeiling))

\* C8: the player_stack setter never rejects a value: no deduction and no payout tries
\* to store a stack outside 0..999999.
C8_SetterNeverRejects ==
    error_message # "Player stack must be between 0 and 999999"

ExitCondition ==
    fle(player_stack, Float(0)) \/ fgt(player_stack, Float(StackCeiling)) \/ reshuffle

\* the message of the exit whose test comes first among those that hold
C9_ExitMessage ==
    IF fle(player_stack, Float(0)) THEN "Exiting: out of chips"
    ELSE IF fgt(player_stack, Float(StackCeiling)) THEN "Exiting: stack >= 1,000,000 - you win!"
    ELSE "Exiting: shoe hit resuffle point"

\* C9: after each completed hand the game ends exactly when the stack is 0 or less, the
\* stack is beyond 999999 or reshuffle is set, through the exit of the condition that
\* holds, and otherwise another hand is started.
C9_ThreeExits ==
    [][pc = "hand_done" =>
         IF ExitCondition
         THEN pc' = "exited" /\ exit_message' = C9_ExitMessage
         ELSE pc' = "play_hand" /\ exit_message' = ""]_vars

\* a hand lost with the whole stack bet has ended the game through the out-of-chips exit
C9_Witness ==
    /\ pc = "exited"
    /\ exit_message = "Exiting: out of chips"
    /\ player_stack = Float(0)
    /\ ~reshuffle

\* the hand is a natural: two cards, an ace and a ten-valued card
C10_Natural(cards) ==
    /\ Len(cards) = 2
    /\ \E i, j \in 1..2 : (cards[i] % 13) = 12 /\ (cards[j] % 13) \in 8..11

\* C10: with a blackjack action_permitted returns false for hit, stand, double and split;
\* otherwise it returns true for hit and for stand, and true for double exactly when the
\* player holds two cards and player_stack >= bet.
C10_ActionPermitted ==
    IF C10_Natural(player_cards)
    THEN \A a \in {"hit", "stand", "double", "split"} :
            ~action_permitted_raises(a) /\ ~action_permitted(a)
    ELSE /\ action_permitted("hit")
         /\ action_permitted("stand")
         /\ action_permitted("double") <=> (Len(player_cards) = 2 /\ fge(player_stack, bet))

\* at the first decision of a hand double is refused because the stack is below the bet
C10_Witness ==
    /\ pc = "input"
    /\ Len(player_cards) = 2
    /\ flt(player_stack, bet)
    /\ ~action_permitted("double")
    /\ action_permitted("hit")

\* no split has occurred in this hand: the Table holds no split cards
C11_NoSplitYet == split_cards = Unset \/ split_cards = <<>>

\* C11: for a hand that is no blackjack, action_permitted(split) returns a boolean, and
\* it is true exactly when no split has occurred in this hand, the player holds two cards
\* of the same rank and player_stack >= bet.
C11_SplitLegality ==
    (/\ pc \in {"action_permitted_returned", "crashed"}
     /\ key = "split"
     /\ ~evaluate_hand(player_cards).blackjack) =>
        /\ exception = ""
        /\ result.returned <=>
              /\ C11_NoSplitYet
              /\ Len(player_cards) = 2
              /\ get_rank(player_cards[1]) = get_rank(player_cards[2])
              /\ fge(player_stack, bet)

\* split is permitted: no blackjack, no split yet in this hand, two cards of the same
\* rank and player_stack >= bet
C12_SplitPermitted ==
    /\ ~evaluate_hand(player_cards).blackjack
    /\ C11_NoSplitYet
    /\ Len(player_cards) = 2
    /\ get_rank(player_cards[1]) = get_rank(player_cards[2])
    /\ fge(player_stack, bet)

\* C12: when split is permitted and process_action is called with the key '2', the hand
\* is divided: one card stays in player_cards, split_cards becomes a non-empty second
\* hand, and the second bet is deducted from the stack.
C12_SplitDividesHand ==
    [][(pc = "call_action" /\ C12_SplitPermitted /\ key' = "2") =>
         /\ split_cards' # Unset
         /\ split_cards' # <<>>
         /\ player_cards' # player_cards
         /\ player_stack' = fsub(player_stack, bet)]_vars

\* C13: reshuffle_point never changes and the number of cards left never grows; when a
\* hand has been settled the reshuffle flag is true exactly when fewer cards are left than
\* reshuffle_point; once true the flag stays true and no further hand is started.
C13_ReshuffleOneWay ==
    /\ [](pc = "hand_done" => (reshuffle <=> shoe_len < reshuffle_point))
    /\ [][/\ reshuffle_point' = reshuffle_point
          /\ shoe_len' <= shoe_len
          /\ reshuffle => reshuffle'
          /\ reshuffle => pc' \notin {"play_hand", "bet", "deal", "prompt", "input"}]_vars

\* the game has ended on the reshuffle flag after more than one hand
C13_Witness ==
    /\ pc = "exited"
    /\ exit_message = "Exiting: shoe hit resuffle point"
    /\ reshuffle
    /\ reshuffle_point = 300
    /\ shoe_len < 296

\* C14 as stated: a freshly built shoe of num_decks decks has
\* 30 <= reshuffle_point < 52 x num_decks, its full card count.
C14_ReshufflePointBelowCount ==
    pc = "shoe_built" =>
        /\ MinReshufflePoint <= reshuffle_point
        /\ reshuffle_point < shoe_len

\* C14 amended: a freshly built shoe of num_decks decks holds 52 x num_decks cards and
\* has 30 <= reshuffle_point <= 52 x num_decks, the upper end included.
C14_ReshufflePointRange ==
    pc = "shoe_built" =>
        /\ shoe_len \in {DeckSize * n : n \in 1..NumDecks}
        /\ MinReshufflePoint <= reshuffle_point
        /\ reshuffle_point <= shoe_len

\* a fresh six-deck shoe whose reshuffle_point equals its card count
C14_Witness ==
    /\ pc = "shoe_built"
    /\ shoe_len = DeckSize * NumDecks
    /\ reshuffle_point = shoe_len

\* C15: no card is ever drawn from an empty shoe: a hand is only started while the cards
\* left are at least reshuffle_point >= 30, the deal finds three cards, every hit, double
\* and dealer draw finds one, and no pop() raises IndexError.
C15_NeverEmptyDraw ==
    /\ exception # "IndexError"
    /\ pc \in {"play_hand", "bet", "deal"} =>
          (shoe_len >= reshuffle_point /\ reshuffle_point >= MinReshufflePoint)
    /\ pc = "deal" => shoe_len >= 3
    /\ pc \in {"input", "reveal"} => shoe_len >= 1

\* a hand that was started with the fewest cards a hand can start with has been played
\* to its end and has used more than ten of them
C15_Witness ==
    /\ pc = "hand_done"
    /\ reshuffle_point = MinReshufflePoint
    /\ shoe_len < MinReshufflePoint - 10
    /\ Len(player_cards) + Len(dealer_cards) = MinReshufflePoint - shoe_len

\* the first n cards of a hand
C16_Prefix(cards, n) == SubSeq(cards, 1, n)

\* C16: reveal_dealer_cards starts with one dealer card and always draws one; with a
\* blackjack in the dealer's two cards or in the player's hand it draws nothing more;
\* otherwise it draws while the dealer value is below 17 and stops at the first value of
\* 17 or more, soft 17 included. The cards drawn are the top cards of the shoe, in order.
C16_DealerDraws ==
    [][(pc = "reveal" /\ evaluate_hand(player_cards).value <= 21 /\ pc' = "result") =>
         LET n == Len(dealer_cards')
         IN  /\ Len(dealer_cards) = 1
             /\ n >= 2
             /\ shoe_len' = shoe_len - (n - 1)
             /\ \A i \in 1..n :
                   dealer_cards'[i] = IF i = 1 THEN dealer_cards[1]
                                      ELSE card_at(shoe_len - (i - 2))
             /\ IF \/ evaluate_hand(C16_Prefix(dealer_cards', 2)).blackjack
                   \/ evaluate_hand(player_cards).blackjack
                THEN n = 2
                ELSE /\ evaluate_hand(dealer_cards').value >= 17
                     /\ \A i \in 2..(n - 1) :
                           evaluate_hand(C16_Prefix(dealer_cards', i)).value < 17]_vars

\* the dealer has stopped on a soft 17 (an ace counted as 11)
C16_Witness ==
    /\ pc = "result"
    /\ evaluate_hand(player_cards).value <= 21
    /\ evaluate_hand(dealer_cards).value = 17
    /\ count_aces(dealer_cards) >= 1
    /\ sum_values(dealer_cards) - 10 * count_aces(dealer_cards) = 7

\* the hand is bust or a blackjack
C17_Over(cards) == evaluate_hand(cards).value > 21 \/ evaluate_hand(cards).blackjack

\* C17: no action is requested of a hand that is bust or a blackjack and no card is added
\* to such a hand; the dealer reveal and the settlement start only with
\* player_input_ended true, and a hand that is bust or a blackjack after an action has
\* its input ended by that action.
C17_InputEndsWhenOver ==
    /\ [](pc = "input" => ~C17_Over(player_cards))
    /\ [](pc \in {"reveal", "result", "shoe_check", "hand_done"} => player_input_ended)
    /\ [][/\ Len(player_cards') > Len(player_cards) => ~C17_Over(player_cards)
          /\ (pc = "input" /\ pc' # "crashed" /\ C17_Over(player_cards')) =>
                (player_input_ended' /\ pc' = "reveal")]_vars

\* a hit has taken the hand over 21 and the input has been ended before the reveal
C17_Witness ==
    /\ pc = "reveal"
    /\ key = "h"
    /\ player_input_ended
    /\ evaluate_hand(player_cards).value > 21

\* C18: chips are conserved within a hand: the deduction of the accepted bet leaves
\* player_stack + bet equal to the stack the hand started with, every action and the
\* dealer's reveal keep player_stack + bet, and the settlement adds exactly the payout
\* of the final bet, so the hand changes the stack by payout - bet.
C18_ChipConservation ==
    [][/\ (pc = "call_deduct" /\ exception' = "") => fadd(player_stack', bet') = player_stack
       /\ pc \in {"call_action", "call_reveal"} =>
             fadd(player_stack', bet') = fadd(player_stack, bet)
       /\ pc = "call_result" =>
             player_stack' = fadd(player_stack, C1_Payout(bet, player_cards, dealer_cards))
      ]_vars

\* C20: with a player who eventually types an accepted bet and a recognised key, every
\* hand that asks for a bet is played to its end and the game ends through one of the
\* exits of the main loop.
C20_GameTerminates ==
    /\ (pc = "bet") ~> (pc = "hand_done")
    /\ <>(pc = "exited")

====
